---- MODULE Spec2Model ----
(***************************************************************************)
(* A model of rockbox_fetch.py: the install / revert pipeline of main(),   *)
(* the backup manager (create_backup, list_backups, restore_backup), the   *)
(* merge deployer (merge_copy) and the HTTP retry policy of the session.   *)
(*                                                                         *)
(* A directory tree is a function from paths (sequences of names, <<>> the *)
(* root of the tree) to DIR or to a file's content; a tree that does not   *)
(* exist is the function with the empty domain.                            *)
(***************************************************************************)
EXTENDS Integers, Sequences, FiniteSets, TLC

\* ------------------------------------------------------------- bounds
\* Trees drawn as merge sources / destinations hold at most this many nodes
\* below their root.
MaxSrcNodes == 2
MaxDstNodes == 3
\* The managed subtree on the volume and the tree inside a downloaded zip hold
\* at most this many nodes below .rockbox at the start.
MaxVolNodes == 1
\* Runs of main() against one volume.
MaxRuns == 2
\* The wall clock runs over the seconds 0..MaxClock.
MaxClock == MaxRuns - 1

\* ------------------------------------------------------ the file system
NameOrder == <<"a", "b">>
Names == {NameOrder[i] : i \in 1..Len(NameOrder)}
Contents == {"c1", "c2"}
DIR == "dir"

NoTree == [p \in {} |-> DIR]
EmptyDir == [p \in {<<>>} |-> DIR]

Exists(t, p) == p \in DOMAIN t
IsDir(t, p) == p \in DOMAIN t /\ t[p] = DIR
IsFile(t, p) == p \in DOMAIN t /\ t[p] # DIR
Parent(p) == SubSeq(p, 1, Len(p) - 1)
Put(t, p, v) == [q \in (DOMAIN t) \cup {p} |-> IF q = p THEN v ELSE t[q]]

\* The orders in which a directory scan (os.scandir under os.walk) may list
\* the names of a directory: unspecified by the platform.
ScanOrders == {o \in [1..Len(NameOrder) -> Names] : \A n \in Names : \E i \in DOMAIN o : o[i] = n}

\* Every tree with a root directory and at most n nodes below it.
Grow(t) ==
    UNION {{Put(t, Append(d, nm), v) : nm \in {x \in Names : ~Exists(t, Append(d, x))},
                                        v \in {DIR} \cup Contents}
           : d \in {q \in DOMAIN t : t[q] = DIR}}

RECURSIVE TreesUpTo(_)
TreesUpTo(n) ==
    IF n = 0 THEN {EmptyDir}
    ELSE LET T == TreesUpTo(n - 1)
         IN T \cup UNION {Grow(t) : t \in {u \in T : Cardinality(DOMAIN u) = n}}

\* ------------------------------------------------------------ merge_copy
\* A file-system operation in progress: the tree so far and whether no
\* exception has been raised.
Running(t) == [t |-> t, ok |-> TRUE]
Raised(t) == [t |-> t, ok |-> FALSE]

\* Path.mkdir(exist_ok=True) of path p below a destination whose parent (the
\* mount point, or the temporary directory) exists: a directory that exists
\* is kept, a file in its place raises FileExistsError, a missing parent
\* raises FileNotFoundError.
Mkdir(st, p) ==
    IF ~st.ok THEN st
    ELSE IF IsDir(st.t, p) THEN st
    ELSE IF Exists(st.t, p) THEN Raised(st.t)
    ELSE IF p # <<>> /\ ~IsDir(st.t, Parent(p)) THEN Raised(st.t)
    ELSE Running(Put(st.t, p, DIR))

\* A copy that opens its target exclusively: an existing file raises.
Copy2NoOverwrite(st, p, v) ==
    IF ~st.ok THEN st
    ELSE IF Exists(st.t, p) THEN Raised(st.t)
    ELSE IF ~IsDir(st.t, Parent(p)) THEN Raised(st.t)
    ELSE Running(Put(st.t, p, v))

\* shutil.copy2(src, dst) of a file with content v onto path p: when dst is a
\* directory the file goes INTO it under the source's base name; the target
\* is opened for writing, which raises on a directory or a missing parent.
Copy2(st, p, v) ==
    IF ~st.ok THEN st
    ELSE LET target == IF IsDir(st.t, p) THEN Append(p, p[Len(p)]) ELSE p
         IN IF IsDir(st.t, target) THEN Raised(st.t)
            ELSE IF ~IsDir(st.t, Parent(target)) THEN Raised(st.t)
            ELSE Running(Put(st.t, target, v))

RECURSIVE Concat(_)
Concat(ss) == IF ss = <<>> THEN <<>> ELSE Head(ss) \o Concat(Tail(ss))

\* The operations of merge_copy's loop over os.walk(src_dir), top-down from
\* directory rel: mkdir of dst_sub, mkdir of each sub-directory, copy2 of
\* each file, then the walk of each sub-directory.
RECURSIVE WalkOps(_, _, _)
WalkOps(S, rel, ord) ==
    LET isd(n) == IsDir(S, Append(rel, n))
        isf(n) == IsFile(S, Append(rel, n))
        dirs == SelectSeq(ord, isd)
        files == SelectSeq(ord, isf)
    IN <<[op |-> "mkdir", p |-> rel, v |-> DIR]>>
       \o [i \in 1..Len(dirs) |-> [op |-> "mkdir", p |-> Append(rel, dirs[i]), v |-> DIR]]
       \o [i \in 1..Len(files) |->
              [op |-> "copy", p |-> Append(rel, files[i]), v |-> S[Append(rel, files[i])]]]
       \o Concat([i \in 1..Len(dirs) |-> WalkOps(S, Append(rel, dirs[i]), ord)])

ApplyOp(st, o) == IF o.op = "mkdir" THEN Mkdir(st, o.p) ELSE Copy2(st, o.p, o.v)

RECURSIVE ApplyOps(_, _)
ApplyOps(st, ops) == IF ops = <<>> THEN st ELSE ApplyOps(ApplyOp(st, Head(ops)), Tail(ops))

\* merge_copy(src_dir, dst_dir): S the source tree, D the destination tree,
\* ord the order in which the walk lists names.  os.walk of a path that is no
\* directory yields nothing.
merge_copy(S, D, ord) ==
    ApplyOps(Mkdir(Running(D), <<>>),
             IF IsDir(S, <<>>) THEN WalkOps(S, <<>>, ord) ELSE <<>>)

\* --------------------------------------------------------- tar archives
\* tarfile.add(name, arcname) is recursive: the entry of the path itself,
\* then, for a directory, its children in sorted(os.listdir()) order.
\* tar.add(..., recursive=False): the entry of the path alone.
TarAddFlat(t, p) == IF ~Exists(t, p) THEN <<>> ELSE <<[p |-> p, v |-> t[p]]>>

RECURSIVE TarAdd(_, _)
TarAdd(t, p) ==
    IF ~Exists(t, p) THEN <<>>
    ELSE <<[p |-> p, v |-> t[p]]>>
         \o (IF t[p] = DIR
             THEN Concat([i \in 1..Len(NameOrder) |-> TarAdd(t, Append(p, NameOrder[i]))])
             ELSE <<>>)

\* tarfile.extractall(td) into a fresh temporary directory: each member in
\* archive order; a directory member is created with its missing parents, a
\* file member is written after its missing parents are created.
RECURSIVE MakeDirs(_, _)
MakeDirs(t, p) ==
    IF IsDir(t, p) THEN t
    ELSE IF p = <<>> THEN Put(t, p, DIR)
    ELSE Put(MakeDirs(t, Parent(p)), p, DIR)

ExtractMember(t, e) ==
    IF e.v = DIR THEN MakeDirs(t, e.p)
    ELSE Put(IF e.p = <<>> THEN t ELSE MakeDirs(t, Parent(e.p)), e.p, e.v)

RECURSIVE ExtractAll(_, _)
ExtractAll(t, es) == IF es = <<>> THEN t ELSE ExtractAll(ExtractMember(t, Head(es)), Tail(es))

\* The archive create_backup writes for the managed subtree rb: the members
\* of tar.add(dot_rockbox, arcname=".rockbox"), completely written.
SnapshotOf(rb) == [entries |-> TarAdd(rb, <<>>), complete |-> TRUE]

\* restore_backup(root, backup_tar, dry=False) on managed subtree D: the
\* archive is extracted to a temporary directory and its .rockbox merged
\* into D.  An archive cut short does not open / extract (tarfile raises).
restore_backup(arch, D, ord) ==
    IF ~arch.complete THEN Raised(D)
    ELSE merge_copy(ExtractAll(NoTree, arch.entries), D, ord)

\* ---------------------------------------------------------------- state
ABSENT == "absent"

\* Files of the mount point outside .rockbox and .rockbox_backups: a user's
\* file, and the names ensure_writable's probe takes, one per second.
OtherFile == <<"notes.txt", 0>>
ProbeName(t) == <<".write_test_", t>>
SibNames == {OtherFile} \cup {ProbeName(t) : t \in 0..MaxClock}

VARIABLES
    pc,          \* main(): "idle" between runs, else the step about to run
    args,        \* the run's arguments [cmd, dry, sel]
    now,         \* the wall clock, in seconds
    writable,    \* whether the mount point accepts writes
    rb,          \* the tree of <mount>/.rockbox (NoTree: it does not exist)
    bdir,        \* whether <mount>/.rockbox_backups exists
    archives,    \* .rockbox_backups/rockbox-backup-<ts>.tar.gz: ts -> [entries, complete, mtime]
    sib,         \* the other files of the mount point: name -> content or ABSENT
    testfile,    \* ensure_writable's probe path
    backup_tar,  \* the archive the revert selected (its ts)
    backup_path, \* create_backup's result: the archive's ts, or -1 for None
    zbytes,      \* what get_bytes returned
    outcome,     \* "running", or how the last run ended
    runs,        \* runs started so far
    backup,      \* this run's create_backup: "pending", "none", "dry", "written", "failed"
    checked,     \* this run's ensure_writable has passed
    merged,      \* this run has called merge_copy
    getBytesCalls, \* this run's calls of get_bytes
    getTextCalls,  \* this run's calls of get_text
    scratch,       \* the temporary directories that exist
    sib0,        \* sib when the run began
    fKind,     \* fetch: "get_text" or "get_bytes"
    fHist,     \* fetch: the server's answers to the requests sent so far
    fLeft,     \* fetch: what is left of Retry.total
    fResult,   \* fetch: "pending", "ok", or the exception raised
    fBodies,   \* fetch: the bodies of the server's answers, as fHist
    fReturned, \* fetch: what get_text / get_bytes returned, NoBody before
    rDevice,   \* resolution: the --device argument
    rPrimary,  \* resolution: the page at DAILY_INDEX_TMPL, or Unavailable
    rSecondary,\* resolution: the page at DAILY_SHTML
    rFetched,  \* resolution: the pages get_text was called for, in order
    rResult,   \* resolution: [outcome, url, date]
    mSrc,      \* merge harness: the source tree handed to merge_copy
    mDst,      \* merge harness: the destination tree before the operation
    mOrd,      \* merge harness: the directory scan order
    mPhase,    \* merge harness: "start", "merged", "restored"
    mOut       \* merge harness: the operation's result [t, ok]

volvars == <<writable, rb, bdir, archives, sib>>
runvars == <<pc, args, now, testfile, backup_tar, backup_path, zbytes, outcome, runs,
             backup, checked, merged, getBytesCalls, getTextCalls, sib0, scratch>>
fvars == <<fKind, fHist, fLeft, fResult, fBodies, fReturned>>
rvars == <<rDevice, rPrimary, rSecondary, rFetched, rResult>>
mvars == <<mSrc, mDst, mOrd, mPhase, mOut, fvars, rvars>>
vars == <<volvars, runvars, mvars>>

\* The state of the parts a specification does not exercise.
NoBody == "nobody"

FetchIdle ==
    /\ fKind = "none" /\ fHist = <<>> /\ fLeft = 0 /\ fResult = "off"
    /\ fBodies = <<>> /\ fReturned = NoBody

\* What get_text meets when the page cannot be fetched.
Unavailable == [ok |-> FALSE, ids |-> {}, hrefs |-> {}]
NoResult == [outcome |-> "off", url |-> <<>>, date |-> <<>>]

ResolveIdle ==
    /\ rDevice = "none" /\ rPrimary = Unavailable /\ rSecondary = Unavailable
    /\ rFetched = <<>> /\ rResult = NoResult

MergeIdle ==
    /\ mSrc = NoTree /\ mDst = NoTree /\ mOrd = NameOrder
    /\ mPhase = "off" /\ mOut = Running(NoTree)
    /\ FetchIdle
    /\ ResolveIdle

NoArgs == [cmd |-> "none", dry |-> FALSE, sel |-> <<"none", 0>>]

PipelineIdle ==
    /\ pc = "off" /\ args = NoArgs /\ now = 0 /\ writable = TRUE
    /\ rb = NoTree /\ bdir = FALSE /\ archives = <<>>
    /\ sib = [n \in SibNames |-> ABSENT] /\ sib0 = [n \in SibNames |-> ABSENT]
    /\ testfile = ProbeName(0) /\ backup_tar = -1 /\ backup_path = -1
    /\ zbytes = "none" /\ outcome = "none" /\ runs = 0
    /\ backup = "pending" /\ checked = FALSE /\ merged = FALSE
    /\ getBytesCalls = 0 /\ getTextCalls = 0 /\ scratch = 0

\* -------------------------------------------------------------- main()
OK == "ok"
PermissionDenied == "die: Cannot write to <mount>"
NotFound == "die: Backup not found"
InvalidArchive == "die: Archive lacks .rockbox"
NoNightly == "die: No nightly builds found"
BadDate == "die: --date must be YYYYMMDD"
IndexError == "exception: IndexError"
OSError == "exception: OSError"
HTTPError == "exception: HTTP error"
BadZipFile == "exception: BadZipFile"

\* The managed subtree found on the volume holds the user's files, the tree
\* of a zip the shipped files.
UserContent == "c1"
ShippedContent == "c2"
FilesHold(t, c) == \A q \in DOMAIN t : t[q] \in {DIR, c}
VolTrees == {t \in TreesUpTo(MaxVolNodes) : FilesHold(t, UserContent)} \cup {NoTree}
ArtTrees == {t \in TreesUpTo(MaxVolNodes) : FilesHold(t, ShippedContent)}

\* What a download can be: a zip with .rockbox at its top level (its tree is
\* one of ArtTrees, seen when it is extracted), a zip without it, bytes that
\* are no zip.
Zips == {"zip", "norockbox", "corrupt"}

Init ==
    /\ pc = "idle"
    /\ args = NoArgs
    /\ now = 0
    /\ writable \in BOOLEAN
    /\ rb \in VolTrees
    /\ bdir \in BOOLEAN
    /\ archives = <<>>
    /\ sib \in {f \in [SibNames -> {ABSENT, "user"}] :
                     /\ f[OtherFile] = "user"
                     /\ \A t \in 1..MaxClock : f[ProbeName(t)] = ABSENT}
    /\ sib0 = sib
    /\ testfile = ProbeName(0) /\ backup_tar = -1 /\ backup_path = -1
    /\ zbytes = "none"
    /\ outcome = "none" /\ runs = 0
    /\ backup = "pending" /\ checked = FALSE /\ merged = FALSE
    /\ getBytesCalls = 0 /\ getTextCalls = 0 /\ scratch = 0
    /\ MergeIdle

\* The run ends (return, sys.exit or an uncaught exception) with outcome o.
End(o) == pc' = "done" /\ outcome' = o

\* The process exits: nothing of the run is left but the volume.
Exit ==
    /\ pc = "done"
    /\ pc' = "idle"
    /\ args' = NoArgs
    /\ outcome' = "none"
    /\ backup' = "pending" /\ checked' = FALSE /\ merged' = FALSE
    /\ getBytesCalls' = 0 /\ getTextCalls' = 0
    /\ testfile' = ProbeName(0) /\ backup_tar' = -1 /\ backup_path' = -1
    /\ zbytes' = "none"
    /\ sib0' = sib
    /\ UNCHANGED <<volvars, mvars, now, runs, scratch>>

\* main() entered with the arguments a, at a second not before the last
\* run's, up to the step the arguments lead to: lines 216-236 for an install,
\* lines 228-229 for a revert (the mount point resolves).
Begin(a, step) ==
    /\ pc = "idle"
    /\ runs < MaxRuns
    /\ runs' = runs + 1
    /\ now' \in now..MaxClock
    /\ args' = a
    /\ pc' = step
    /\ outcome' = "running"
    /\ UNCHANGED <<volvars, mvars, testfile, backup, checked, merged, getBytesCalls,
                   getTextCalls, backup_tar, backup_path, zbytes, sib0, scratch>>

\* The channel (--release, --date, neither) picks the branch of lines
\* 238-243: see the Resolve actions.
BeginInstall ==
    \E dry \in BOOLEAN, step \in {"resolve_release", "resolve_date", "resolve_latest"} :
        Begin([cmd |-> "install", dry |-> dry, sel |-> <<"none", 0>>], step)

\* --revert with no value selects "latest"; with a value, that path: here the
\* archive named by second n of the backups directory, present or not.
BeginRevert ==
    \E dry \in BOOLEAN, sel \in {<<"latest", 0>>} \cup {<<"path", n>> : n \in 0..MaxClock} :
        Begin([cmd |-> "revert", dry |-> dry, sel |-> sel], "revert_select")

\* Lines 238-245: the URL of the build, one action per channel.  A release or
\* a dated nightly is composed from the arguments (a malformed date dies);
\* the latest nightly is looked up with get_text on the device's index page.
UNCHANGED_RUN == UNCHANGED <<volvars, mvars, now, args, runs, testfile, backup_tar,
                             backup_path, zbytes, backup, checked, merged, sib0, scratch>>

ResolveRelease ==
    /\ pc = "resolve_release"
    /\ pc' = "ensure_writable"
    /\ UNCHANGED <<outcome, getBytesCalls, getTextCalls>>
    /\ UNCHANGED_RUN

ResolveDate ==
    /\ pc = "resolve_date"
    /\ \E valid \in BOOLEAN :
           IF valid THEN pc' = "ensure_writable" /\ UNCHANGED outcome
           ELSE End(BadDate)
    /\ UNCHANGED <<getBytesCalls, getTextCalls>>
    /\ UNCHANGED_RUN

ResolveLatest ==
    /\ pc = "resolve_latest"
    /\ getTextCalls' = getTextCalls + 1
    /\ \E page \in {"dates", "nodates", "httperror"} :
           CASE page = "dates" -> pc' = "ensure_writable" /\ UNCHANGED outcome
             [] page = "nodates" -> End(NoNightly)
             [] page = "httperror" -> End(HTTPError)
    /\ UNCHANGED getBytesCalls
    /\ UNCHANGED_RUN

\* ensure_writable(mp), lines 155-158: the probe file is opened for writing
\* and "ok" written; a failure to open dies.
EnsureWritableOpen ==
    /\ pc = "ensure_writable"
    /\ testfile' = ProbeName(now)
    /\ IF writable
       THEN /\ sib' = [sib EXCEPT ![ProbeName(now)] = "ok"]
            /\ pc' = "probe_unlink"
            /\ UNCHANGED outcome
       ELSE /\ End(PermissionDenied)
            /\ UNCHANGED sib
    /\ UNCHANGED <<writable, rb, bdir, archives, mvars, now, args, runs, backup_tar, backup_path,
                   zbytes, backup, checked, merged, getBytesCalls, getTextCalls, sib0, scratch>>

\* ensure_writable(mp), lines 159-161: the probe file is unlinked.
EnsureWritableUnlink ==
    /\ pc = "probe_unlink"
    /\ sib' = [sib EXCEPT ![testfile] = ABSENT]
    /\ checked' = TRUE
    /\ pc' = IF args.cmd = "revert" THEN "restore" ELSE "create_backup"
    /\ UNCHANGED <<writable, rb, bdir, archives, mvars, now, args, runs, testfile, backup_tar,
                   backup_path, zbytes, outcome, backup, merged, getBytesCalls, getTextCalls, sib0, scratch>>

\* Line 249 without its return: a dry run goes on to the download.
AfterBackup_NoDryReturn == pc' = "download" /\ UNCHANGED outcome

\* The position after create_backup returned: lines 248-251.
AfterBackup == IF args.dry THEN End(OK) ELSE pc' = "download" /\ UNCHANGED outcome

UNCHANGED_BACKUP == UNCHANGED <<writable, rb, sib, mvars, now, args, runs, testfile, backup_tar,
                                zbytes, checked, merged, getBytesCalls, getTextCalls, sib0, scratch>>

\* create_backup, lines 168-169: there is no .rockbox to back up.
CreateBackupNone ==
    /\ pc = "create_backup"
    /\ ~Exists(rb, <<>>)
    /\ backup' = "none" /\ backup_path' = -1
    /\ AfterBackup
    /\ UNCHANGED <<bdir, archives>>
    /\ UNCHANGED_BACKUP

\* create_backup, lines 170-172, dry: backups_dir() makes the directory, the
\* archive's path is logged and returned.
CreateBackupDry ==
    /\ pc = "create_backup"
    /\ Exists(rb, <<>>)
    /\ args.dry
    /\ bdir' = TRUE
    /\ backup' = "dry" /\ backup_path' = now
    /\ AfterBackup
    /\ UNCHANGED archives
    /\ UNCHANGED_BACKUP

\* create_backup returning the path without writing the archive (the dry
\* branch taken in a run that is not dry).
CreateBackupWrite_NoArchive ==
    /\ pc = "create_backup"
    /\ Exists(rb, <<>>)
    /\ ~args.dry
    /\ bdir' = TRUE
    /\ backup' = "written" /\ backup_path' = now
    /\ AfterBackup
    /\ UNCHANGED archives
    /\ UNCHANGED_BACKUP

\* create_backup, lines 170-175: the archive named by the current second is
\* opened for writing (created or truncated) and .rockbox added to it.
CreateBackupWrite ==
    /\ pc = "create_backup"
    /\ Exists(rb, <<>>)
    /\ ~args.dry
    /\ bdir' = TRUE
    /\ archives' = Put(archives, now, [entries |-> TarAdd(rb, <<>>), complete |-> TRUE,
                                       mtime |-> now])
    /\ backup' = "written" /\ backup_path' = now
    /\ AfterBackup
    /\ UNCHANGED_BACKUP

\* create_backup's failure caught and logged, the install going on.
CreateBackupFail_Swallowed ==
    /\ pc = "create_backup"
    /\ Exists(rb, <<>>)
    /\ ~args.dry
    /\ bdir' = TRUE
    /\ archives' = Put(archives, now, [entries |-> <<>>, complete |-> FALSE, mtime |-> now])
    /\ backup' = "failed" /\ backup_path' = -1
    /\ pc' = "download" /\ UNCHANGED outcome
    /\ UNCHANGED_BACKUP

\* create_backup, line 174, failing: writing the archive raises (the disk is
\* full, the card is pulled) and leaves the file cut short; the exception
\* ends the run.
CreateBackupFail ==
    /\ pc = "create_backup"
    /\ Exists(rb, <<>>)
    /\ ~args.dry
    /\ bdir' = TRUE
    /\ archives' = Put(archives, now, [entries |-> <<>>, complete |-> FALSE, mtime |-> now])
    /\ backup' = "failed" /\ backup_path' = -1
    /\ End(OSError)
    /\ UNCHANGED_BACKUP

\* Line 252: get_bytes(url) returns the download or raises.
GetBytes ==
    /\ pc = "download"
    /\ getBytesCalls' = getBytesCalls + 1
    /\ \/ \E z \in Zips : zbytes' = z /\ pc' = "deploy" /\ UNCHANGED outcome
       \/ End(HTTPError) /\ UNCHANGED zbytes
    /\ UNCHANGED <<volvars, mvars, now, args, runs, testfile, backup_tar, backup_path,
                   backup, checked, merged, getTextCalls, sib0, scratch>>

UNCHANGED_DEPLOY == UNCHANGED <<writable, bdir, archives, sib, mvars, now, args, runs, testfile,
                                backup_tar, backup_path, zbytes, backup, checked,
                                getBytesCalls, getTextCalls, sib0>>

\* unzip_and_deploy, lines 200-202: the bytes are no zip, or the zip has no
\* top-level .rockbox.
DeployReject ==
    /\ pc = "deploy"
    /\ zbytes # "zip"
    /\ End(IF zbytes = "corrupt" THEN BadZipFile ELSE InvalidArchive)
    /\ UNCHANGED <<rb, merged, scratch>>
    /\ UNCHANGED_DEPLOY

\* tempfile.TemporaryDirectory(): __enter__ makes a directory, __exit__
\* removes it, however the block is left.
TemporaryDirectoryEnter(n) == n + 1
TemporaryDirectoryExit(n) == n - 1

\* The extraction of whatever opened as a zip, the check of lines 201-202
\* left out.
DeployExtract_NoValidation ==
    /\ pc = "deploy"
    /\ zbytes \in {"zip", "norockbox"}
    /\ scratch' = TemporaryDirectoryEnter(scratch)
    /\ pc' = "deploy_merge"
    /\ UNCHANGED <<outcome, rb, merged>>
    /\ UNCHANGED_DEPLOY

\* unzip_and_deploy, lines 203-204: the temporary directory is made and the
\* zip extracted into it; an extraction that raises (a member's data is
\* damaged) leaves the block.
DeployExtract ==
    /\ pc = "deploy"
    /\ zbytes = "zip"
    /\ \E extracted \in BOOLEAN :
           IF extracted
           THEN /\ scratch' = TemporaryDirectoryEnter(scratch)
                /\ pc' = "deploy_merge"
                /\ UNCHANGED outcome
           ELSE /\ scratch' = TemporaryDirectoryExit(TemporaryDirectoryEnter(scratch))
                /\ End(BadZipFile)
    /\ UNCHANGED <<rb, merged>>
    /\ UNCHANGED_DEPLOY

\* The merge followed by a removal of the directory that an exception skips.
DeployMerge_NoFinally ==
    /\ pc = "deploy_merge"
    /\ merged' = TRUE
    /\ \E tree \in ArtTrees, ord \in ScanOrders :
           LET res == merge_copy(tree, rb, ord)
           IN /\ rb' = res.t
              /\ End(IF res.ok THEN OK ELSE OSError)
              /\ scratch' = IF res.ok THEN TemporaryDirectoryExit(scratch) ELSE scratch
    /\ UNCHANGED_DEPLOY

\* unzip_and_deploy, lines 205-206: the extracted .rockbox is merged into
\* <mount>/.rockbox and the block left, by return or by merge_copy's exception.
DeployMerge ==
    /\ pc = "deploy_merge"
    /\ merged' = TRUE
    /\ \E tree \in ArtTrees, ord \in ScanOrders :
           LET res == merge_copy(tree, rb, ord)
           IN rb' = res.t /\ End(IF res.ok THEN OK ELSE OSError)
    /\ scratch' = TemporaryDirectoryExit(scratch)
    /\ UNCHANGED_DEPLOY

\* list_backups(root): backups_dir() makes the directory, then the archives
\* sorted by modification time, oldest first.
RECURSIVE SortByMtime(_, _)
SortByMtime(as, names) ==
    IF names = {} THEN <<>>
    ELSE LET first == CHOOSE n \in names :
                          \A o \in names : as[n].mtime < as[o].mtime
                                            \/ (as[n].mtime = as[o].mtime /\ n <= o)
         IN <<first>> \o SortByMtime(as, names \ {first})

list_backups(as) == SortByMtime(as, DOMAIN as)

UNCHANGED_SELECT == UNCHANGED <<writable, rb, archives, sib, mvars, now, args, runs, testfile,
                                backup_path, zbytes, backup, checked, merged,
                                getBytesCalls, getTextCalls, sib0, scratch>>

\* Lines 230-231 with "latest": list_backups(mp)[-1].  The directory is made
\* if missing (which raises on a mount point that refuses writes); the index
\* into an empty list raises IndexError.
RevertSelectLatest ==
    /\ pc = "revert_select"
    /\ args.sel[1] = "latest"
    /\ IF ~bdir /\ ~writable
       THEN End(OSError) /\ UNCHANGED <<bdir, backup_tar>>
       ELSE /\ bdir' = TRUE
            /\ IF list_backups(archives) = <<>>
               THEN End(IndexError) /\ UNCHANGED backup_tar
               ELSE /\ backup_tar' = list_backups(archives)[Len(list_backups(archives))]
                    /\ pc' = "ensure_writable"
                    /\ UNCHANGED outcome
    /\ UNCHANGED_SELECT

\* Lines 230-231 with a path: the run dies when the path does not exist.
RevertSelectPath ==
    /\ pc = "revert_select"
    /\ args.sel[1] = "path"
    /\ IF args.sel[2] \in DOMAIN archives
       THEN backup_tar' = args.sel[2] /\ pc' = "ensure_writable" /\ UNCHANGED outcome
       ELSE End(NotFound) /\ UNCHANGED backup_tar
    /\ UNCHANGED bdir
    /\ UNCHANGED_SELECT

\* restore_backup, lines 181-186: a dry run returns; else the temporary
\* directory is made and the archive extracted into it; an archive cut short
\* raises and leaves the block.
RestoreExtract ==
    /\ pc = "restore"
    /\ IF args.dry
       THEN End(OK) /\ UNCHANGED scratch
       ELSE IF archives[backup_tar].complete
            THEN /\ scratch' = TemporaryDirectoryEnter(scratch)
                 /\ pc' = "restore_merge"
                 /\ UNCHANGED outcome
            ELSE /\ scratch' = TemporaryDirectoryExit(TemporaryDirectoryEnter(scratch))
                 /\ End(OSError)
    /\ UNCHANGED <<rb, merged>>
    /\ UNCHANGED_DEPLOY

\* restore_backup, line 187: the extracted .rockbox is merged into
\* <mount>/.rockbox and the block left.
RestoreMerge ==
    /\ pc = "restore_merge"
    /\ merged' = TRUE
    /\ \E ord \in ScanOrders :
           LET res == restore_backup(archives[backup_tar], rb, ord)
           IN rb' = res.t /\ End(IF res.ok THEN OK ELSE OSError)
    /\ scratch' = TemporaryDirectoryExit(scratch)
    /\ UNCHANGED_DEPLOY

Next ==
    \/ Exit
    \/ BeginInstall
    \/ BeginRevert
    \/ ResolveRelease
    \/ ResolveDate
    \/ ResolveLatest
    \/ EnsureWritableOpen
    \/ EnsureWritableUnlink
    \/ CreateBackupNone
    \/ CreateBackupDry
    \/ CreateBackupWrite
    \/ CreateBackupFail
    \/ GetBytes
    \/ DeployReject
    \/ DeployExtract
    \/ DeployMerge
    \/ RevertSelectLatest
    \/ RevertSelectPath
    \/ RestoreExtract
    \/ RestoreMerge

Spec == Init /\ [][Next]_vars


\* ------------------------------------------- merge / restore as functions
SrcTrees == TreesUpTo(MaxSrcNodes)
DstTrees == TreesUpTo(MaxDstNodes) \cup {NoTree}

MergeInit ==
    /\ mSrc \in SrcTrees
    /\ mDst \in DstTrees
    /\ mOrd \in ScanOrders
    /\ mPhase = "start"
    /\ mOut = Running(mDst)
    /\ FetchIdle
    /\ ResolveIdle
    /\ PipelineIdle

\* merge_copy(mSrc, mDst)
Merge ==
    /\ mPhase = "start"
    /\ mOut' = merge_copy(mSrc, mDst, mOrd)
    /\ mPhase' = "merged"
    /\ UNCHANGED <<mSrc, mDst, mOrd, fvars, rvars, volvars, runvars>>

\* create_backup of the managed subtree mDst, then restore_backup of that
\* snapshot onto a managed subtree that is absent or an empty directory.
SnapshotRestore ==
    /\ mPhase = "start"
    /\ IsDir(mDst, <<>>)
    /\ \E target \in {NoTree, EmptyDir} :
           mOut' = restore_backup(SnapshotOf(mDst), target, mOrd)
    /\ mPhase' = "restored"
    /\ UNCHANGED <<mSrc, mDst, mOrd, fvars, rvars, volvars, runvars>>

\* merge_copy(mSrc, .) once more, onto the destination the first call left
\* when it returned; the walk may list the names in another order.
MergeAgain ==
    /\ mPhase = "merged"
    /\ mOut.ok
    /\ mDst' = mOut.t
    /\ \E ord \in ScanOrders :
           /\ mOrd' = ord
           /\ mOut' = merge_copy(mSrc, mOut.t, ord)
    /\ mPhase' = "merged2"
    /\ UNCHANGED <<mSrc, fvars, rvars, volvars, runvars>>

MergeNext == Merge \/ MergeAgain \/ SnapshotRestore

SpecMerge == MergeInit /\ [][MergeNext]_vars

\* ------------------------------------------------- the HTTP session's fetch
\* Retry(total=3, ..., status_forcelist=(403, 429, 500, 502, 503, 504)),
\* mounted on the session that get_text and get_bytes share.
RetryTotal == 3
status_forcelist == {403, 429, 500, 502, 503, 504}

\* What one request can meet: a status, or a connection-level error.
CONNERR == 0
Responses == {200, 403, 404, 429, 500, 502, 503, 504, CONNERR}

\* The bodies an answer can carry.
Bodies == {"body1", "body2"}

\* A retry policy that leaves the 5xx statuses out of the force list.
is_retry_no_5xx(r) == r = CONNERR \/ r \in {403, 429}

\* Retry.is_retry for a GET: a connection-level error, or a status of the
\* force list.
is_retry(r) == r = CONNERR \/ r \in status_forcelist

\* What get_text (lines 45-49) and get_bytes (lines 52-54) do with the
\* response the session hands back.
Returned(kind, r) ==
    IF kind = "get_text" /\ r = 403 THEN "SystemExit"
    ELSE IF r >= 400 THEN "HTTPError"
    ELSE "ok"

\* r.text / r.content: the body of the response the session handed back,
\* the last one received.
Content(bodies) == bodies[Len(bodies)]

FetchInit ==
    /\ fKind \in {"get_text", "get_bytes"}
    /\ fHist = <<>>
    /\ fLeft = RetryTotal
    /\ fResult = "pending"
    /\ fBodies = <<>> /\ fReturned = NoBody
    /\ mSrc = NoTree /\ mDst = NoTree /\ mOrd = NameOrder
    /\ mPhase = "off" /\ mOut = Running(NoTree)
    /\ ResolveIdle
    /\ PipelineIdle

\* One request of _session.get(url): the adapter sends it; an answer that
\* is_retry is retried while Retry.total lasts and raises when it is used up,
\* any other answer goes back to the caller.
Request ==
    /\ fResult = "pending"
    /\ \E r \in Responses, b \in Bodies :
        /\ fHist' = Append(fHist, r)
        /\ fBodies' = Append(fBodies, b)
        /\ IF is_retry(r)
           THEN /\ IF fLeft = 0
                   THEN /\ fResult' = IF r = CONNERR THEN "ConnectionError" ELSE "RetryError"
                        /\ UNCHANGED fLeft
                   ELSE /\ fLeft' = fLeft - 1
                        /\ UNCHANGED fResult
                /\ UNCHANGED fReturned
           ELSE /\ fResult' = Returned(fKind, r)
                /\ fReturned' = IF Returned(fKind, r) = "ok"
                                THEN Content(fBodies') ELSE NoBody
                /\ UNCHANGED fLeft
    /\ UNCHANGED <<fKind, mSrc, mDst, mOrd, mPhase, mOut, rvars, volvars, runvars>>

FetchNext == Request

SpecFetch == FetchInit /\ [][FetchNext]_vars

\* ------------------------------------------- latest-nightly resolution
\* A nightly identifier rockbox-<device>-<date>.zip, as NIGHTLY_RE matches it:
\* the device name and the date, a string of eight digits.
Devices == {"erosqnative", "ipod6g"}
KnownDates == {<<2, 0, 2, 4, 1, 2, 3, 1>>, <<2, 0, 2, 5, 0, 1, 0, 1>>,
               <<2, 0, 2, 5, 0, 8, 2, 2>>}
Identifiers == [device : Devices, date : KnownDates]

\* A page: the identifiers anywhere in its text, and those of them that
\* stand inside an href="..." attribute (all of them, or none).
Pages == UNION {{[ok |-> TRUE, ids |-> i, hrefs |-> i], [ok |-> TRUE, ids |-> i, hrefs |-> {}]} :
                    i \in SUBSET Identifiers}

\* Python's < on two strings of digits: by the first position that differs,
\* a proper prefix being the smaller.
RECURSIVE StrLess(_, _)
StrLess(a, b) ==
    IF b = <<>> THEN FALSE
    ELSE IF a = <<>> THEN TRUE
    ELSE IF Head(a) # Head(b) THEN Head(a) < Head(b)
    ELSE StrLess(Tail(a), Tail(b))

\* max(dates) over strings.
MaxStr(ds) == CHOOSE d \in ds : \A e \in ds : ~StrLess(d, e)

\* The dates of the matches, whatever their device.
DatesInAny(ids, device) == {i.date : i \in ids}

\* [m.group("date") for m in ... if m.group("device") == device]
DatesIn(ids, device) == {i.date : i \in {j \in ids : j.device = device}}

\* urljoin(BASE_DAILY + f"{device}/", f"rockbox-{device}-{date}.zip")
NightlyUrl(device, date) ==
    <<"https://download.rockbox.org/daily/", device, "rockbox", device, date, "zip">>

\* latest_nightly_url_for_device(device) given what get_text of the device's
\* index answers: the exception get_text raises goes to the caller; dates
\* are taken from the text, from its hrefs when the text gave none; die when
\* there are none, else the URL of max(dates).
latest_nightly_url_for_device(device, page) ==
    IF ~page.ok THEN [outcome |-> HTTPError, url |-> <<>>, date |-> <<>>]
    ELSE LET fromText == DatesIn(page.ids, device)
             dates == IF fromText = {} THEN DatesIn(page.hrefs, device) ELSE fromText
         IN IF dates = {} THEN [outcome |-> NoNightly, url |-> <<>>, date |-> <<>>]
            ELSE [outcome |-> OK, url |-> NightlyUrl(device, MaxStr(dates)),
                  date |-> MaxStr(dates)]

ResolveInit ==
    /\ rDevice \in Devices
    /\ rPrimary \in Pages \cup {Unavailable}
    /\ rSecondary \in {[ok |-> TRUE, ids |-> i, hrefs |-> i] : i \in SUBSET Identifiers}
    /\ rFetched = <<>>
    /\ rResult = [NoResult EXCEPT !.outcome = "running"]
    /\ mSrc = NoTree /\ mDst = NoTree /\ mOrd = NameOrder
    /\ mPhase = "off" /\ mOut = Running(NoTree)
    /\ FetchIdle
    /\ PipelineIdle

\* latest_nightly_url_for_device(rDevice): one get_text, of the device's index.
LatestNightly ==
    /\ rResult.outcome = "running"
    /\ rFetched' = Append(rFetched, "DAILY_INDEX_TMPL")
    /\ rResult' = latest_nightly_url_for_device(rDevice, rPrimary)
    /\ UNCHANGED <<rDevice, rPrimary, rSecondary, mSrc, mDst, mOrd, mPhase, mOut, fvars,
                   volvars, runvars>>

ResolveNext == LatestNightly

SpecResolve == ResolveInit /\ [][ResolveNext]_vars

\* ------------------------------------------------------------- the claims

\* C1: in a non-dry-run install, the step that calls merge_copy is taken only
\* after create_backup, in the same run, either wrote a complete archive of
\* the .rockbox that is about to be merged into, or found no .rockbox.
C1_BackupBeforeMerge ==
    [][(args.cmd = "install" /\ ~merged /\ merged')
         => /\ ~args.dry
            /\ \/ backup = "none" /\ ~Exists(rb, <<>>)
               \/ /\ backup = "written"
                  /\ backup_path \in DOMAIN archives
                  /\ archives[backup_path].complete
                  /\ archives[backup_path].entries = TarAdd(rb, <<>>)]_vars

\* An install has merged into a .rockbox it had archived, and changed it.
C1_Witness ==
    /\ args.cmd = "install" /\ merged /\ backup = "written"
    /\ archives[backup_path].entries # TarAdd(rb, <<>>)

\* C2: after merge_copy(S, D), every path of D that is no path of S is still
\* in D with the kind and content it had.
C2_MergeKeepsOtherPaths ==
    mPhase = "merged"
        => \A p \in DOMAIN mDst :
               p \notin DOMAIN mSrc => p \in DOMAIN mOut.t /\ mOut.t[p] = mDst[p]

\* C3: no step of a dry-run install changes .rockbox, .rockbox_backups or
\* any other file of the mount point.
C3_DryRunChangesNothing ==
    [][(args.cmd = "install" /\ args.dry)
         => <<rb, bdir, archives, sib>>' = <<rb, bdir, archives, sib>>]_vars

\* C4: a request answered 403 is the fetch's only request, and every answer
\* that was followed by another request is one of 429, 500, 502, 503, 504 or
\* a connection-level error.
SpecRetryable == {429, 500, 502, 503, 504, CONNERR}

C4_ForbiddenIsTerminal ==
    /\ (fHist # <<>> /\ fHist[1] = 403) => Len(fHist) = 1
    /\ \A i \in 1..(Len(fHist) - 1) : fHist[i] \in SpecRetryable

\* C5: no step modifies, truncates or replaces a completely written snapshot,
\* and every create_backup that writes one raises their number by one.
CompleteSnapshots(as) == {n \in DOMAIN as : as[n].complete}

C5_SnapshotsAppendOnly ==
    [][/\ \A n \in CompleteSnapshots(archives) :
              n \in DOMAIN archives' /\ archives'[n] = archives[n]
       /\ (backup # "written" /\ backup' = "written")
              => Cardinality(CompleteSnapshots(archives')) =
                     Cardinality(CompleteSnapshots(archives)) + 1]_vars

\* C6: a revert of "latest" on a volume with no snapshots ends with 'Backup
\* not found' and has merged nothing.  (Stated for a mount point that accepts
\* writes: on one that does not, the run ends in mkdir's OSError, see C8.)
C6_RevertLatestNotFound ==
    (pc = "done" /\ args.cmd = "revert" /\ args.sel[1] = "latest" /\ DOMAIN archives = {}
       /\ writable)
        => outcome = NotFound /\ ~merged

\* C7: a run whose create_backup failed while archiving has ended, has never
\* called get_bytes and has never called merge_copy.
C7_FailedSnapshotAborts ==
    backup = "failed"
        => pc = "done" /\ outcome = OSError /\ getBytesCalls = 0 /\ ~merged

\* A run has ended on a failed create_backup.
C7_Witness == backup = "failed" /\ pc = "done" /\ args.cmd = "install" /\ ~args.dry

\* C8: within a run, .rockbox, the snapshot directory and the snapshots
\* change only after ensure_writable has passed; on a mount point that
\* refuses writes nothing changes and ensure_writable ends the run with
\* 'Cannot write'.
C8_CheckBeforeMutation ==
    [][/\ <<rb, bdir, archives>>' # <<rb, bdir, archives>> => checked
       /\ ~writable => <<rb, bdir, archives, sib>>' = <<rb, bdir, archives, sib>>
       /\ (pc = "ensure_writable" /\ ~writable) => outcome' = PermissionDenied]_vars

\* C9: when a run has ended, every file of the mount point outside .rockbox
\* and .rockbox_backups that existed when it began exists with the content
\* it had.
C9_SiblingsUntouched ==
    pc = "done" => \A n \in SibNames : sib0[n] # ABSENT => sib[n] = sib0[n]

\* C10: create_backup of an existing managed subtree D, then restore_backup
\* of that snapshot onto an absent or empty managed subtree, completes and
\* yields exactly D.
C10_SnapshotRestoreRoundTrip ==
    mPhase = "restored" => mOut.ok /\ mOut.t = mDst

\* A subtree with a file inside a sub-directory has been restored.
C10_Witness ==
    /\ mPhase = "restored"
    /\ \E p \in DOMAIN mDst : Len(p) = 2 /\ mDst[p] # DIR

\* C11: when merge_copy(S, D) has returned, a second merge_copy(S, .) onto the
\* destination it left returns too and leaves that destination as it was.
C11_MergeIdempotent ==
    mPhase = "merged2" => mOut.ok /\ mOut.t = mDst

\* A second merge has run over a destination where the first had copied a
\* file into a directory of the file's name.
C11_Witness ==
    /\ mPhase = "merged2"
    /\ \E p \in DOMAIN mSrc :
           IsFile(mSrc, p) /\ IsDir(mDst, p) /\ IsFile(mDst, Append(p, p[Len(p)]))

\* C19: when merge_copy(S, D) has returned, every directory of S is a
\* directory of the destination, and every file of S is a file of the
\* destination at the same path with the content it has in S.
C19_MergePostcondition ==
    (mPhase = "merged" /\ mOut.ok)
        => \A p \in DOMAIN mSrc :
               /\ p \in DOMAIN mOut.t
               /\ mOut.t[p] = mSrc[p]

\* C12: a fetch that has met only retryable answers, fewer than the retry
\* budget, goes on to another request; and a fetch answered 200 after fewer
\* retryable answers than the budget has succeeded and returned the body of
\* that 200.
C12_RetryThenSuccess ==
    LET n == Len(fHist)
        retryable(k) == \A i \in 1..k : fHist[i] \in SpecRetryable
    IN /\ (fKind # "none" /\ n < RetryTotal /\ retryable(n)) => fResult = "pending"
       /\ (n >= 1 /\ n - 1 < RetryTotal /\ retryable(n - 1) /\ fHist[n] = 200)
              => fResult = "ok" /\ fReturned = fBodies[n]

\* 503, 503, then 200 with a body that differs from the bodies of the 503s.
C12_Witness ==
    /\ fHist = <<503, 503, 200>>
    /\ fBodies[3] # fBodies[1] /\ fBodies[3] # fBodies[2]
    /\ fResult = "ok"

\* C13: when the page of the device's index cannot be fetched, the resolution
\* fetches the secondary page and extracts from it as from the first; it
\* ends with 'No nightly builds found' only when neither page lists an
\* identifier of the device.
C13_LatestNightlyFallback ==
    rResult.outcome \notin {"off", "running"}
        => /\ rPrimary = Unavailable
                 => /\ rFetched = <<"DAILY_INDEX_TMPL", "DAILY_SHTML">>
                    /\ rResult = latest_nightly_url_for_device(rDevice, rSecondary)
           /\ rResult.outcome = NoNightly
                 => /\ rPrimary # Unavailable => DatesIn(rPrimary.ids, rDevice) = {}
                    /\ DatesIn(rSecondary.ids, rDevice) = {}

\* The day a date string names, as a number.
RECURSIVE DateValue(_)
DateValue(d) == IF d = <<>> THEN 0 ELSE 10 * DateValue(SubSeq(d, 1, Len(d) - 1)) + d[Len(d)]

\* The dates the index lists for the device asked for.
ListedForDevice == {i.date : i \in {j \in rPrimary.ids : j.device = rDevice}}

\* C16: when the index lists dates for the device, the resolution selects
\* the chronologically greatest of the device's dates, whatever the other
\* devices' identifiers, and returns the URL built from it.
C16_LatestNightlySelection ==
    (rResult.outcome \notin {"off", "running"} /\ rPrimary.ok /\ ListedForDevice # {})
        => /\ rResult.outcome = OK
           /\ rResult.date \in ListedForDevice
           /\ \A d \in ListedForDevice : DateValue(d) <= DateValue(rResult.date)
           /\ rResult.url = NightlyUrl(rDevice, rResult.date)

\* The device has several dates, of two years, and another device has a
\* later one than the date selected.
C16_Witness ==
    /\ rResult.outcome = OK
    /\ Cardinality(ListedForDevice) >= 2
    /\ \E d \in ListedForDevice : d[4] # rResult.date[4]
    /\ \E i \in rPrimary.ids :
           i.device # rDevice /\ DateValue(i.date) > DateValue(rResult.date)

\* C14 as stated: in a dry-run install neither get_text nor get_bytes is
\* called.
C14_DryRunNoFetch_Stated ==
    (args.cmd = "install" /\ args.dry) => getTextCalls = 0 /\ getBytesCalls = 0

\* C14: a dry-run install never calls get_bytes, and calls get_text only in
\* the resolution of the latest nightly, once (for the device's index page);
\* with --release or --date it sends no request at all.
C14_DryRunNoFetch ==
    [][(args.cmd = "install" /\ args.dry /\ pc # "done")
         => /\ getBytesCalls' = 0
            /\ getTextCalls' # getTextCalls
                  => pc = "resolve_latest" /\ getTextCalls = 0 /\ getTextCalls' = 1]_vars

\* A dry-run install of the latest nightly has ended well after its lookup.
C14_Witness ==
    /\ args.cmd = "install" /\ args.dry /\ pc = "done" /\ outcome = OK
    /\ getTextCalls = 1 /\ getBytesCalls = 0

\* C20: when a run has ended no temporary directory exists, whether
\* unzip_and_deploy or restore_backup returned or raised; one exists only
\* between the extraction and the end of the merge.
C20_ScratchCleanup ==
    /\ pc \in {"done", "idle"} => scratch = 0
    /\ scratch # 0 => pc \in {"deploy_merge", "restore_merge"} /\ scratch = 1

\* A run has ended on merge_copy's exception, after the extraction into a
\* temporary directory.
C20_Witness ==
    pc = "done" /\ merged /\ outcome = OSError /\ scratch = 0

\* C15: list_backups lists the snapshots oldest first, in an order that is
\* also the order of their names, and the archive a revert of "latest"
\* selects is the completely written snapshot of the most recent install
\* that wrote one.
C15_ListingChronological ==
    LET l == list_backups(archives)
    IN /\ \A i, j \in 1..Len(l) :
              i < j => archives[l[i]].mtime <= archives[l[j]].mtime /\ l[i] < l[j]
       /\ (args.cmd = "revert" /\ args.sel[1] = "latest" /\ backup_tar # -1)
              => /\ backup_tar \in CompleteSnapshots(archives)
                 /\ \A n \in CompleteSnapshots(archives) : n <= backup_tar

\* C17 as stated: an install writes its snapshot only after the download
\* has been fetched and has passed the check for a top-level .rockbox, and an
\* install that ends with 'Archive lacks .rockbox' has written none.
C17_InstallOrder_Stated ==
    args.cmd = "install"
        => /\ backup = "written" => getBytesCalls = 1 /\ zbytes = "zip"
           /\ outcome = InvalidArchive => backup # "written"

\* C17: a non-dry-run install resolves the URL, checks the mount point,
\* snapshots .rockbox, and only then fetches, validates, unpacks and merges;
\* an install that ends with 'Archive lacks .rockbox' has merged nothing and
\* has, before the fetch, written the snapshot of the .rockbox it found.
C17_InstallOrder ==
    [][(args.cmd = "install" /\ pc # "done")
         => /\ getTextCalls' # getTextCalls => ~checked /\ backup = "pending"
            /\ backup' # backup => checked /\ getBytesCalls = 0 /\ scratch = 0
            /\ getBytesCalls' # getBytesCalls
                  => ~args.dry /\ checked /\ backup \in {"none", "written"}
            /\ scratch' > scratch => getBytesCalls = 1 /\ zbytes = "zip"
            /\ (~merged /\ merged') => scratch = 1
            /\ outcome' = InvalidArchive
                  => /\ ~merged' /\ archives' = archives
                     /\ backup = (IF Exists(rb, <<>>) THEN "written" ELSE "none")]_vars

\* An install has ended with 'Archive lacks .rockbox' after it wrote its
\* snapshot.
C17_Witness ==
    /\ args.cmd = "install" /\ pc = "done" /\ outcome = InvalidArchive
    /\ backup = "written" /\ backup_path \in CompleteSnapshots(archives)

\* C18: every archive list_backups returns is a completely written one.
C18_NoPartialSnapshotListed ==
    \A i \in 1..Len(list_backups(archives)) :
        archives[list_backups(archives)[i]].complete

====
